---- MODULE Spec2Model ----
(***************************************************************************)
(* A model of gates.py: pins, gates, the push-based propagation of a       *)
(* value through a network of gates, and the gate classes built on it.    *)
(*                                                                         *)
(* Every pin object is a natural number, allocated in construction order.  *)
(* A gate object is a record                                               *)
(*   ins   : the list self._inputs  (pins)                                 *)
(*   outs  : the list self._outputs (pins)                                 *)
(*   prims : the gates built inside it (itself included), each with the    *)
(*           class that decides its refreshOutputs and the pins it was     *)
(*           constructed with                                              *)
(*   gate  : InputPin.gate of every input pin                              *)
(*   connections : OutputPin.connections of every output pin               *)
(*   hi    : the pins that construction left True                          *)
(*   n     : the number of pins allocated so far                           *)
(*   err   : the exception the constructor raised, or "none"               *)
(***************************************************************************)
EXTENDS Integers, Sequences, FiniteSets, TLC

VARIABLES
    kind,     \* the class of the gate constructed
    val,      \* the value of every pin
    raced,    \* the last setIn ran the race branch of SRLatch.refreshOutputs
    err,      \* the exception the last call raised, or "none"
    ret,      \* what the last call returned
    touched,  \* the input indices setIn has written so far
    gated,    \* a GatedSRLatch: the pin values it can have after calls
    plain,    \* an SRLatch: the pin values it can have after calls
    calls,    \* the setIn calls made on both latches, in order
    chain     \* the operands and the result of a TwoGateChain(a, b)

vars == <<kind, val, raced, err, ret, touched, gated, plain, calls, chain>>

\* What a run on one gate leaves alone.
aside == <<gated, plain, calls, chain>>

\* Largest n of the Fan(n) handed to TwoGateChain.
MaxFan == 3

\* Most times one propagation is followed back into a setValue in progress.
MaxLaps == 2

\* Longest sequence of setIn calls made on two latches side by side.
MaxCalls == 4

\* Largest integer handed to setIn as a value (setIn takes 0..MaxValue).
MaxValue == 1

\* Indices handed to setIn run from -IndexSlack to nInputs - 1 + IndexSlack.
IndexSlack == 2

NoError == "none"

Range(s) == {s[i] : i \in DOMAIN s}

\* bool(value) on an integer
Bool(x) == x # 0

\* x | y on two bools, where the code has x ^ y.
BoolOr(x, y) == x \/ y

\* x ^ y on two bools
BoolXor(x, y) == x # y

\* random.randint(1, 10)
RandInts == 1..10

(***************************************************************************)
(* Gate                                                                    *)
(***************************************************************************)

\* The one element of a set of one element.  Written The({e(x) : x \in {a}})
\* it is e(a) with a evaluated once, however often e uses x.
The(S) == CHOOSE x \in S : TRUE

\* Gate.__init__: nInputs fresh InputPin(self), nOutputs fresh OutputPin(),
\* allocated after the first0 pins that exist.  The InputPins belong to a
\* gate of class cls.
Gate(first0, cls, nIns, nOuts) ==
    The({LET ins  == [i \in 1..nIns |-> b + i]
             outs == [i \in 1..nOuts |-> b + nIns + i]
             me   == [k |-> cls, ins |-> ins, outs |-> outs]
         IN [ins   |-> ins,
             outs  |-> outs,
             prims |-> {me},
             gate  |-> [p \in Range(ins) |-> me],
             connections |-> [p \in Range(outs) |-> {}],
             hi    |-> {},
             n     |-> b + nIns + nOuts,
             err   |-> NoError] : b \in {first0}})

nInputs(g) == Len(g.ins)

nOutputs(g) == Len(g.outs)

\* The pin at index (0-based), or 0 where the code raises GateException.
NoPin == 0

\* self._inputs[index] as a bare Python list gives it: a negative index
\* counts from the end.
getInPinFromEnd(g, index) ==
    IF 0 <= index /\ index < Len(g.ins) THEN g.ins[index + 1]
    ELSE IF index < 0 /\ 0 - index <= Len(g.ins) THEN g.ins[Len(g.ins) + index + 1]
    ELSE NoPin

getInPin(g, index) ==
    IF 0 <= index /\ index < Len(g.ins) THEN g.ins[index + 1] ELSE NoPin

getOutPin(g, index) ==
    IF 0 <= index /\ index < Len(g.outs) THEN g.outs[index + 1] ELSE NoPin

RaiseGateException(g) == [g EXCEPT !.err = "GateException"]

\* Gate.setInPin on the gate g0; a statement after an exception is not run.
setInPin(g0, index, pin0) ==
    The({IF g.err # NoError THEN g
         ELSE IF 0 <= index /\ index < Len(g.ins) /\ pin # NoPin
              THEN [g EXCEPT !.ins[index + 1] = pin]
              ELSE RaiseGateException(g) : g \in {g0}, pin \in {pin0}})

setOutPin(g0, index, pin0) ==
    The({IF g.err # NoError THEN g
         ELSE IF 0 <= index /\ index < Len(g.outs) /\ pin # NoPin
              THEN [g EXCEPT !.outs[index + 1] = pin]
              ELSE RaiseGateException(g) : g \in {g0}, pin \in {pin0}})

\* OutputPin.addConnection, on the output pin o0 of a gate inside g0.
addConnection(g0, o0, pin0) ==
    The({IF g.err # NoError THEN g
         ELSE IF o = NoPin \/ pin = NoPin THEN RaiseGateException(g)
         ELSE [g EXCEPT !.connections[o] = @ \cup {pin}] :
             g \in {g0}, o \in {o0}, pin \in {pin0}})

\* self.x = X(): the gate sub0, built after everything in g0, becomes part
\* of g0.
Sub(g0, sub0) ==
    The({[g EXCEPT !.prims = @ \cup sub.prims,
                   !.gate  = @ @@ sub.gate,
                   !.connections = @ @@ sub.connections,
                   !.hi    = @ \cup sub.hi,
                   !.n     = sub.n,
                   !.err   = IF @ # NoError THEN @ ELSE sub.err] :
             g \in {g0}, sub \in {sub0}})

(***************************************************************************)
(* The primitive gates                                                     *)
(***************************************************************************)

And(b) == Gate(b, "And", 2, 1)

Or(b) == Gate(b, "Or", 2, 1)

Not(b) == Gate(b, "Not", 1, 1)

Xor(b) == Gate(b, "Xor", 2, 1)

Fan(b, nOuts) == Gate(b, "Fan", 1, nOuts)

\* SRLatch.__init__: _setOut(0, False); _setOut(1, True) on pins that are
\* connected to nothing yet.
SRLatch(b) ==
    The({[g EXCEPT !.hi = {g.outs[2]}] : g \in {Gate(b, "SRLatch", 2, 2)}})

(***************************************************************************)
(* TwoGateChain and its subclasses                                         *)
(***************************************************************************)

RECURSIVE ChainConnect(_, _, _, _)
\* for i in xrange(a.nOutputs): a.getOutPin(i).addConnection(b.getInPin(i))
ChainConnect(g, a, bg, i) ==
    IF i >= nOutputs(a) THEN g
    ELSE The({ChainConnect(h, a, bg, i + 1) :
                  h \in {addConnection(g, getOutPin(a, i), getInPin(bg, i))}})

\* TwoGateChain.__init__ without its loop of addConnection.
TwoGateChainUnconnected(a0, bg0) ==
    The({IF nOutputs(a) # nInputs(bg) THEN RaiseGateException(self)
         ELSE [self EXCEPT !.ins = @ \o a.ins, !.outs = @ \o bg.outs] :
             a \in {a0}, bg \in {bg0},
             self \in {Sub(Sub(Gate(bg0.n, "Gate", 0, 0), a0), bg0)}})

\* TwoGateChain.__init__ with the test of the pin counts after the loop of
\* addConnection.
TwoGateChainConnectFirst(a0, bg0) ==
    The({IF nOutputs(a) # nInputs(bg) THEN RaiseGateException([g EXCEPT !.err = NoError])
         ELSE g :
             a \in {a0}, bg \in {bg0},
             g \in {ChainConnect([Sub(Sub(Gate(bg0.n, "Gate", 0, 0), a0), bg0)
                                     EXCEPT !.ins = @ \o a0.ins, !.outs = @ \o bg0.outs],
                                 a0, bg0, 0)}})

\* a0 was built first, then bg0, then the chain itself.
TwoGateChain(a0, bg0) ==
    The({IF nOutputs(a) # nInputs(bg) THEN RaiseGateException(self)
         ELSE ChainConnect([self EXCEPT !.ins = @ \o a.ins, !.outs = @ \o bg.outs],
                           a, bg, 0) :
             a \in {a0}, bg \in {bg0},
             self \in {Sub(Sub(Gate(bg0.n, "Gate", 0, 0), a0), bg0)}})

\* The two constructor calls a subclass of TwoGateChain hands to it.
Nand == << <<"And">>, <<"Not">> >>

Nor == << <<"Or">>, <<"Not">> >>

Xnor == << <<"Xor">>, <<"Not">> >>

(***************************************************************************)
(* The composite gates.  A constructor is written down as it reads:        *)
(*   nIn, nOut : the arguments of Gate.__init__                            *)
(*   parts     : self.name = Class(args), as <<name, <<Class, args>>>>     *)
(*   body      : its statements, in order:                                 *)
(*     <<"setInPin", i, x, j>>   self.setInPin(i, self.x.getInPin(j))      *)
(*     <<"setOutPin", i, x, j>>  self.setOutPin(i, self.x.getOutPin(j))    *)
(*     <<"addConnection", x, i, y, j>>                                     *)
(*              self.x.getOutPin(i).addConnection(self.y.getInPin(j))      *)
(***************************************************************************)

\* TwoToOneMux.__init__
TwoToOneMux ==
    [nIn |-> 3, nOut |-> 1,
     parts |-> << <<"twoWayFan", <<"Fan", 2>> >>,
                <<"and1", <<"And">> >>,
                <<"and2", <<"And">> >>,
                <<"notGate", <<"Not">> >>,
                <<"orGate", <<"Or">> >> >>,
     body |-> << <<"setInPin", 0, "twoWayFan", 0>>,
               <<"setInPin", 1, "and1", 0>>,
               <<"setInPin", 2, "and2", 0>>,
               <<"addConnection", "twoWayFan", 0, "notGate", 0>>,
               <<"addConnection", "twoWayFan", 1, "and2", 1>>,
               <<"addConnection", "notGate", 0, "and1", 1>>,
               <<"addConnection", "and1", 0, "orGate", 0>>,
               <<"addConnection", "and2", 0, "orGate", 1>>,
               <<"setOutPin", 0, "orGate", 0>> >>]

\* ThreeWayAnd with the output of and1 fed back into and2.
ThreeWayAndFeedback ==
    [nIn |-> 3, nOut |-> 1,
     parts |-> << <<"and1", <<"And">> >>,
                <<"and2", <<"And">> >> >>,
     body |-> << <<"setInPin", 0, "and1", 0>>,
               <<"setInPin", 1, "and2", 0>>,
               <<"setInPin", 2, "and2", 1>>,
               <<"addConnection", "and2", 0, "and1", 1>>,
               <<"addConnection", "and1", 0, "and2", 0>>,
               <<"setOutPin", 0, "and1", 0>> >>]

\* ThreeWayAnd.__init__
ThreeWayAnd ==
    [nIn |-> 3, nOut |-> 1,
     parts |-> << <<"and1", <<"And">> >>,
                <<"and2", <<"And">> >> >>,
     body |-> << <<"setInPin", 0, "and1", 0>>,
               <<"setInPin", 1, "and2", 0>>,
               <<"setInPin", 2, "and2", 1>>,
               <<"addConnection", "and2", 0, "and1", 1>>,
               <<"setOutPin", 0, "and1", 0>> >>]

\* FourWayAnd.__init__
FourWayAnd ==
    [nIn |-> 4, nOut |-> 1,
     parts |-> << <<"and1", <<"And">> >>,
                <<"and2", <<"And">> >>,
                <<"and3", <<"And">> >> >>,
     body |-> << <<"setInPin", 0, "and1", 0>>,
               <<"setInPin", 1, "and1", 1>>,
               <<"setInPin", 2, "and2", 0>>,
               <<"setInPin", 3, "and2", 1>>,
               <<"addConnection", "and1", 0, "and3", 0>>,
               <<"addConnection", "and2", 0, "and3", 1>>,
               <<"setOutPin", 0, "and3", 0>> >>]

\* FourWayOr that leaves its input slot 3 the pin Gate.__init__ made.
FourWayOrUnbound ==
    [nIn |-> 4, nOut |-> 1,
     parts |-> << <<"or1", <<"Or">> >>,
                <<"or2", <<"Or">> >>,
                <<"or3", <<"Or">> >> >>,
     body |-> << <<"setInPin", 0, "or1", 0>>,
               <<"setInPin", 1, "or1", 1>>,
               <<"setInPin", 2, "or2", 0>>,
               <<"addConnection", "or1", 0, "or3", 0>>,
               <<"addConnection", "or2", 0, "or3", 1>>,
               <<"setOutPin", 0, "or3", 0>> >>]

\* FourWayOr.__init__
FourWayOr ==
    [nIn |-> 4, nOut |-> 1,
     parts |-> << <<"or1", <<"Or">> >>,
                <<"or2", <<"Or">> >>,
                <<"or3", <<"Or">> >> >>,
     body |-> << <<"setInPin", 0, "or1", 0>>,
               <<"setInPin", 1, "or1", 1>>,
               <<"setInPin", 2, "or2", 0>>,
               <<"setInPin", 3, "or2", 1>>,
               <<"addConnection", "or1", 0, "or3", 0>>,
               <<"addConnection", "or2", 0, "or3", 1>>,
               <<"setOutPin", 0, "or3", 0>> >>]

\* FourToOneMux with the data pins 3 and 4 bound the other way round.
FourToOneMuxSwapped ==
    [nIn |-> 6, nOut |-> 1,
     parts |-> << <<"fan1", <<"Fan", 2>> >>,
                <<"fan2", <<"Fan", 2>> >>,
                <<"not1", <<"Not">> >>,
                <<"not2", <<"Not">> >>,
                <<"and1", <<"ThreeWayAnd">> >>,
                <<"and2", <<"ThreeWayAnd">> >>,
                <<"and3", <<"ThreeWayAnd">> >>,
                <<"and4", <<"ThreeWayAnd">> >>,
                <<"orGate", <<"FourWayOr">> >> >>,
     body |-> << <<"setInPin", 0, "fan1", 0>>,
               <<"setInPin", 1, "fan2", 0>>,
               <<"setInPin", 2, "and1", 0>>,
               <<"setInPin", 3, "and3", 0>>,
               <<"setInPin", 4, "and2", 0>>,
               <<"setInPin", 5, "and4", 0>>,
               <<"addConnection", "fan1", 0, "and3", 1>>,
               <<"addConnection", "fan1", 0, "and4", 1>>,
               <<"addConnection", "fan1", 1, "not1", 0>>,
               <<"addConnection", "fan2", 0, "and2", 2>>,
               <<"addConnection", "fan2", 0, "and4", 2>>,
               <<"addConnection", "fan2", 1, "not2", 0>>,
               <<"addConnection", "not1", 0, "and1", 1>>,
               <<"addConnection", "not1", 0, "and2", 1>>,
               <<"addConnection", "not2", 0, "and1", 2>>,
               <<"addConnection", "not2", 0, "and3", 2>>,
               <<"addConnection", "and1", 0, "orGate", 0>>,
               <<"addConnection", "and2", 0, "orGate", 1>>,
               <<"addConnection", "and3", 0, "orGate", 2>>,
               <<"addConnection", "and4", 0, "orGate", 3>>,
               <<"setOutPin", 0, "orGate", 0>> >>]

\* FourToOneMux.__init__
FourToOneMux ==
    [nIn |-> 6, nOut |-> 1,
     parts |-> << <<"fan1", <<"Fan", 2>> >>,
                <<"fan2", <<"Fan", 2>> >>,
                <<"not1", <<"Not">> >>,
                <<"not2", <<"Not">> >>,
                <<"and1", <<"ThreeWayAnd">> >>,
                <<"and2", <<"ThreeWayAnd">> >>,
                <<"and3", <<"ThreeWayAnd">> >>,
                <<"and4", <<"ThreeWayAnd">> >>,
                <<"orGate", <<"FourWayOr">> >> >>,
     body |-> << <<"setInPin", 0, "fan1", 0>>,
               <<"setInPin", 1, "fan2", 0>>,
               <<"setInPin", 2, "and1", 0>>,
               <<"setInPin", 3, "and2", 0>>,
               <<"setInPin", 4, "and3", 0>>,
               <<"setInPin", 5, "and4", 0>>,
               <<"addConnection", "fan1", 0, "and3", 1>>,
               <<"addConnection", "fan1", 0, "and4", 1>>,
               <<"addConnection", "fan1", 1, "not1", 0>>,
               <<"addConnection", "fan2", 0, "and2", 2>>,
               <<"addConnection", "fan2", 0, "and4", 2>>,
               <<"addConnection", "fan2", 1, "not2", 0>>,
               <<"addConnection", "not1", 0, "and1", 1>>,
               <<"addConnection", "not1", 0, "and2", 1>>,
               <<"addConnection", "not2", 0, "and1", 2>>,
               <<"addConnection", "not2", 0, "and3", 2>>,
               <<"addConnection", "and1", 0, "orGate", 0>>,
               <<"addConnection", "and2", 0, "orGate", 1>>,
               <<"addConnection", "and3", 0, "orGate", 2>>,
               <<"addConnection", "and4", 0, "orGate", 3>>,
               <<"setOutPin", 0, "orGate", 0>> >>]

\* HalfAdder.__init__
HalfAdder ==
    [nIn |-> 2, nOut |-> 2,
     parts |-> << <<"fan1", <<"Fan", 2>> >>,
                <<"fan2", <<"Fan", 2>> >>,
                <<"xorGate", <<"Xor">> >>,
                <<"andGate", <<"And">> >> >>,
     body |-> << <<"setInPin", 0, "fan1", 0>>,
               <<"setInPin", 1, "fan2", 0>>,
               <<"addConnection", "fan1", 0, "xorGate", 0>>,
               <<"addConnection", "fan1", 1, "andGate", 0>>,
               <<"addConnection", "fan2", 0, "xorGate", 1>>,
               <<"addConnection", "fan2", 1, "andGate", 1>>,
               <<"setOutPin", 0, "andGate", 0>>,
               <<"setOutPin", 1, "xorGate", 0>> >>]

\* OneBitAdder whose carry output is the half adder's carry, not the Or's.
OneBitAdderNoOr ==
    [nIn |-> 3, nOut |-> 2,
     parts |-> << <<"fan1", <<"Fan", 2>> >>,
                <<"fan2", <<"Fan", 2>> >>,
                <<"xorGate", <<"Xor">> >>,
                <<"halfAdder", <<"HalfAdder">> >>,
                <<"andGate", <<"And">> >>,
                <<"orGate", <<"Or">> >> >>,
     body |-> << <<"setInPin", 0, "fan1", 0>>,
               <<"setInPin", 1, "fan2", 0>>,
               <<"setInPin", 2, "halfAdder", 0>>,
               <<"addConnection", "fan1", 0, "xorGate", 0>>,
               <<"addConnection", "fan1", 0, "andGate", 0>>,
               <<"addConnection", "fan2", 0, "xorGate", 1>>,
               <<"addConnection", "fan2", 0, "andGate", 1>>,
               <<"addConnection", "xorGate", 0, "halfAdder", 1>>,
               <<"addConnection", "halfAdder", 0, "orGate", 0>>,
               <<"addConnection", "andGate", 0, "orGate", 1>>,
               <<"setOutPin", 1, "halfAdder", 1>>,
               <<"setOutPin", 0, "halfAdder", 0>> >>]

\* OneBitAdder.__init__
OneBitAdder ==
    [nIn |-> 3, nOut |-> 2,
     parts |-> << <<"fan1", <<"Fan", 2>> >>,
                <<"fan2", <<"Fan", 2>> >>,
                <<"xorGate", <<"Xor">> >>,
                <<"halfAdder", <<"HalfAdder">> >>,
                <<"andGate", <<"And">> >>,
                <<"orGate", <<"Or">> >> >>,
     body |-> << <<"setInPin", 0, "fan1", 0>>,
               <<"setInPin", 1, "fan2", 0>>,
               <<"setInPin", 2, "halfAdder", 0>>,
               <<"addConnection", "fan1", 0, "xorGate", 0>>,
               <<"addConnection", "fan1", 0, "andGate", 0>>,
               <<"addConnection", "fan2", 0, "xorGate", 1>>,
               <<"addConnection", "fan2", 0, "andGate", 1>>,
               <<"addConnection", "xorGate", 0, "halfAdder", 1>>,
               <<"addConnection", "halfAdder", 0, "orGate", 0>>,
               <<"addConnection", "andGate", 0, "orGate", 1>>,
               <<"setOutPin", 1, "halfAdder", 1>>,
               <<"setOutPin", 0, "orGate", 0>> >>]

\* FourBitAdder whose second adder's carry is not wired to the third.
FourBitAdderBrokenCarry ==
    [nIn |-> 9, nOut |-> 5,
     parts |-> << <<"oneBitAdder1", <<"OneBitAdder">> >>,
                <<"oneBitAdder2", <<"OneBitAdder">> >>,
                <<"oneBitAdder3", <<"OneBitAdder">> >>,
                <<"oneBitAdder4", <<"OneBitAdder">> >> >>,
     body |-> << <<"setInPin", 0, "oneBitAdder1", 0>>,
               <<"setInPin", 1, "oneBitAdder1", 1>>,
               <<"setInPin", 2, "oneBitAdder2", 0>>,
               <<"setInPin", 3, "oneBitAdder2", 1>>,
               <<"setInPin", 4, "oneBitAdder3", 0>>,
               <<"setInPin", 5, "oneBitAdder3", 1>>,
               <<"setInPin", 6, "oneBitAdder4", 0>>,
               <<"setInPin", 7, "oneBitAdder4", 1>>,
               <<"setInPin", 8, "oneBitAdder1", 2>>,
               <<"addConnection", "oneBitAdder1", 0, "oneBitAdder2", 2>>,
               <<"addConnection", "oneBitAdder3", 0, "oneBitAdder4", 2>>,
               <<"setOutPin", 0, "oneBitAdder1", 1>>,
               <<"setOutPin", 1, "oneBitAdder2", 1>>,
               <<"setOutPin", 2, "oneBitAdder3", 1>>,
               <<"setOutPin", 3, "oneBitAdder4", 1>>,
               <<"setOutPin", 4, "oneBitAdder4", 0>> >>]

\* FourBitAdder.__init__
FourBitAdder ==
    [nIn |-> 9, nOut |-> 5,
     parts |-> << <<"oneBitAdder1", <<"OneBitAdder">> >>,
                <<"oneBitAdder2", <<"OneBitAdder">> >>,
                <<"oneBitAdder3", <<"OneBitAdder">> >>,
                <<"oneBitAdder4", <<"OneBitAdder">> >> >>,
     body |-> << <<"setInPin", 0, "oneBitAdder1", 0>>,
               <<"setInPin", 1, "oneBitAdder1", 1>>,
               <<"setInPin", 2, "oneBitAdder2", 0>>,
               <<"setInPin", 3, "oneBitAdder2", 1>>,
               <<"setInPin", 4, "oneBitAdder3", 0>>,
               <<"setInPin", 5, "oneBitAdder3", 1>>,
               <<"setInPin", 6, "oneBitAdder4", 0>>,
               <<"setInPin", 7, "oneBitAdder4", 1>>,
               <<"setInPin", 8, "oneBitAdder1", 2>>,
               <<"addConnection", "oneBitAdder1", 0, "oneBitAdder2", 2>>,
               <<"addConnection", "oneBitAdder2", 0, "oneBitAdder3", 2>>,
               <<"addConnection", "oneBitAdder3", 0, "oneBitAdder4", 2>>,
               <<"setOutPin", 0, "oneBitAdder1", 1>>,
               <<"setOutPin", 1, "oneBitAdder2", 1>>,
               <<"setOutPin", 2, "oneBitAdder3", 1>>,
               <<"setOutPin", 3, "oneBitAdder4", 1>>,
               <<"setOutPin", 4, "oneBitAdder4", 0>> >>]

\* GatedSRLatch whose pin 0 goes to the And of the set line and pin 1 to the
\* And of the reset line.
GatedSRLatchSwapped ==
    [nIn |-> 3, nOut |-> 2,
     parts |-> << <<"fan", <<"Fan", 2>> >>,
                <<"and1", <<"And">> >>,
                <<"and2", <<"And">> >>,
                <<"latch", <<"SRLatch">> >> >>,
     body |-> << <<"setInPin", 0, "and2", 0>>,
               <<"setInPin", 1, "and1", 0>>,
               <<"setInPin", 2, "fan", 0>>,
               <<"addConnection", "fan", 0, "and1", 1>>,
               <<"addConnection", "fan", 1, "and2", 1>>,
               <<"addConnection", "and1", 0, "latch", 0>>,
               <<"addConnection", "and2", 0, "latch", 1>>,
               <<"setOutPin", 0, "latch", 0>>,
               <<"setOutPin", 1, "latch", 1>> >>]

\* GatedSRLatch whose reset input is the latch's own reset pin, past the And.
GatedSRLatchUngatedReset ==
    [nIn |-> 3, nOut |-> 2,
     parts |-> << <<"fan", <<"Fan", 2>> >>,
                <<"and1", <<"And">> >>,
                <<"and2", <<"And">> >>,
                <<"latch", <<"SRLatch">> >> >>,
     body |-> << <<"setInPin", 0, "latch", 0>>,
               <<"setInPin", 1, "and2", 0>>,
               <<"setInPin", 2, "fan", 0>>,
               <<"addConnection", "fan", 0, "and1", 1>>,
               <<"addConnection", "fan", 1, "and2", 1>>,
               <<"addConnection", "and2", 0, "latch", 1>>,
               <<"setOutPin", 0, "latch", 0>>,
               <<"setOutPin", 1, "latch", 1>> >>]

\* GatedSRLatch whose set input is the latch's own set pin, past the And.
GatedSRLatchUngatedSet ==
    [nIn |-> 3, nOut |-> 2,
     parts |-> << <<"fan", <<"Fan", 2>> >>,
                <<"and1", <<"And">> >>,
                <<"and2", <<"And">> >>,
                <<"latch", <<"SRLatch">> >> >>,
     body |-> << <<"setInPin", 0, "and1", 0>>,
               <<"setInPin", 1, "latch", 1>>,
               <<"setInPin", 2, "fan", 0>>,
               <<"addConnection", "fan", 0, "and1", 1>>,
               <<"addConnection", "fan", 1, "and2", 1>>,
               <<"addConnection", "and1", 0, "latch", 0>>,
               <<"setOutPin", 0, "latch", 0>>,
               <<"setOutPin", 1, "latch", 1>> >>]

\* GatedSRLatch.__init__
GatedSRLatch ==
    [nIn |-> 3, nOut |-> 2,
     parts |-> << <<"fan", <<"Fan", 2>> >>,
                <<"and1", <<"And">> >>,
                <<"and2", <<"And">> >>,
                <<"latch", <<"SRLatch">> >> >>,
     body |-> << <<"setInPin", 0, "and1", 0>>,
               <<"setInPin", 1, "and2", 0>>,
               <<"setInPin", 2, "fan", 0>>,
               <<"addConnection", "fan", 0, "and1", 1>>,
               <<"addConnection", "fan", 1, "and2", 1>>,
               <<"addConnection", "and1", 0, "latch", 0>>,
               <<"addConnection", "and2", 0, "latch", 1>>,
               <<"setOutPin", 0, "latch", 0>>,
               <<"setOutPin", 1, "latch", 1>> >>]

\* DLatch whose Not is not wired to the reset line.
DLatchNoReset ==
    [nIn |-> 2, nOut |-> 2,
     parts |-> << <<"fan", <<"Fan", 2>> >>,
                <<"notGate", <<"Not">> >>,
                <<"gsrLatch", <<"GatedSRLatch">> >> >>,
     body |-> << <<"setInPin", 0, "fan", 0>>,
               <<"setInPin", 1, "gsrLatch", 2>>,
               <<"addConnection", "fan", 0, "notGate", 0>>,
               <<"addConnection", "fan", 1, "gsrLatch", 1>>,
               <<"setOutPin", 0, "gsrLatch", 0>>,
               <<"setOutPin", 1, "gsrLatch", 1>> >>]

\* DLatch.__init__
DLatch ==
    [nIn |-> 2, nOut |-> 2,
     parts |-> << <<"fan", <<"Fan", 2>> >>,
                <<"notGate", <<"Not">> >>,
                <<"gsrLatch", <<"GatedSRLatch">> >> >>,
     body |-> << <<"setInPin", 0, "fan", 0>>,
               <<"setInPin", 1, "gsrLatch", 2>>,
               <<"addConnection", "fan", 0, "notGate", 0>>,
               <<"addConnection", "fan", 1, "gsrLatch", 1>>,
               <<"addConnection", "notGate", 0, "gsrLatch", 0>>,
               <<"setOutPin", 0, "gsrLatch", 0>>,
               <<"setOutPin", 1, "gsrLatch", 1>> >>]

ChainClasses == {"Nand", "Nor", "Xnor"}

ChainOf(cls) ==
    CASE cls = "Nand" -> Nand
      [] cls = "Nor" -> Nor
      [] cls = "Xnor" -> Xnor

ClassOf(cls) ==
    CASE cls = "TwoToOneMux" -> TwoToOneMux
      [] cls = "ThreeWayAnd" -> ThreeWayAnd
      [] cls = "FourWayAnd" -> FourWayAnd
      [] cls = "FourWayOr" -> FourWayOr
      [] cls = "FourToOneMux" -> FourToOneMux
      [] cls = "HalfAdder" -> HalfAdder
      [] cls = "OneBitAdder" -> OneBitAdder
      [] cls = "FourBitAdder" -> FourBitAdder
      [] cls = "GatedSRLatch" -> GatedSRLatch
      [] cls = "DLatch" -> DLatch

\* One statement of a constructor, on the gate g whose parts are env.
Statement(g, env, s) ==
    CASE s[1] = "setInPin" -> setInPin(g, s[2], getInPin(env[s[3]], s[4]))
      [] s[1] = "setOutPin" -> setOutPin(g, s[2], getOutPin(env[s[3]], s[4]))
      [] s[1] = "addConnection" ->
            addConnection(g, getOutPin(env[s[2]], s[3]), getInPin(env[s[4]], s[5]))

RECURSIVE Statements(_, _, _, _)
\* The statements body[i], body[i + 1], ... of a constructor
Statements(g, env, body, i) ==
    IF i > Len(body) THEN g
    ELSE The({Statements(h, env, body, i + 1) : h \in {Statement(g, env, body[i])}})

RECURSIVE Construct(_, _)
RECURSIVE Parts(_, _, _, _, _)

\* self.name = Class(args) for parts[i], parts[i + 1], ..., then the body
Parts(g, env, parts, i, body) ==
    IF i > Len(parts) THEN Statements(g, env, body, 1)
    ELSE The({Parts(Sub(g, sub), env @@ (parts[i][1] :> sub), parts, i + 1, body) :
                  sub \in {Construct(parts[i][2], g.n)}})

\* The gate the constructor call makes when first0 pins exist already.
Construct(call, first0) ==
    CASE call[1] = "And" -> And(first0)
      [] call[1] = "Or" -> Or(first0)
      [] call[1] = "Not" -> Not(first0)
      [] call[1] = "Xor" -> Xor(first0)
      [] call[1] = "Fan" -> Fan(first0, call[2])
      [] call[1] = "SRLatch" -> SRLatch(first0)
      [] call[1] \in ChainClasses ->
            The({TwoGateChain(a, Construct(ChainOf(call[1])[2], a.n)) :
                     a \in {Construct(ChainOf(call[1])[1], first0)}})
      [] OTHER ->
            Parts(Gate(first0, "Gate", ClassOf(call[1]).nIn, ClassOf(call[1]).nOut),
                  <<>>, ClassOf(call[1]).parts, 1, ClassOf(call[1]).body)

(***************************************************************************)
(* The gate under test                                                     *)
(***************************************************************************)

AndGate == Construct(<<"And">>, 0)
OrGate == Construct(<<"Or">>, 0)
NotGate == Construct(<<"Not">>, 0)
XorGate == Construct(<<"Xor">>, 0)
FanGate == Construct(<<"Fan", 2>>, 0)
NandGate == Construct(<<"Nand">>, 0)
NorGate == Construct(<<"Nor">>, 0)
XnorGate == Construct(<<"Xnor">>, 0)
TwoToOneMuxGate == Construct(<<"TwoToOneMux">>, 0)
ThreeWayAndGate == Construct(<<"ThreeWayAnd">>, 0)
FourWayAndGate == Construct(<<"FourWayAnd">>, 0)
FourWayOrGate == Construct(<<"FourWayOr">>, 0)
FourToOneMuxGate == Construct(<<"FourToOneMux">>, 0)
HalfAdderGate == Construct(<<"HalfAdder">>, 0)
OneBitAdderGate == Construct(<<"OneBitAdder">>, 0)
FourBitAdderGate == Construct(<<"FourBitAdder">>, 0)
SRLatchGate == Construct(<<"SRLatch">>, 0)
GatedSRLatchGate == Construct(<<"GatedSRLatch">>, 0)
DLatchGate == Construct(<<"DLatch">>, 0)

\* The classes the main program of gates.py enumerates, and FourToOneMux.
Kinds ==
    {"And", "Or", "Not", "Xor", "Fan", "Nand", "Nor", "Xnor", "TwoToOneMux",
     "ThreeWayAnd", "FourWayAnd", "FourWayOr", "FourToOneMux", "HalfAdder",
     "OneBitAdder", "SRLatch", "GatedSRLatch", "DLatch"}

\* g = X(); g.getOutPin(0).addConnection(g.getInPin(0)): a gate whose first
\* output is connected to its own first input.
Looped(g) == addConnection(g, getOutPin(g, 0), getInPin(g, 0))

LoopGates ==
    [k \in {"Not loop"} |-> Looped(NotGate)]
        @@ [k \in {"And loop"} |-> Looped(AndGate)]
        @@ [k \in {"Or loop"} |-> Looped(OrGate)]
        @@ [k \in {"Xor loop"} |-> Looped(XorGate)]
        @@ [k \in {"Fan loop"} |-> Looped(FanGate)]
        @@ [k \in {"Nand loop"} |-> Looped(NandGate)]
        @@ [k \in {"ThreeWayAnd loop"} |-> Looped(ThreeWayAndGate)]
        @@ [k \in {"TwoToOneMux loop"} |-> Looped(TwoToOneMuxGate)]
        @@ [k \in {"HalfAdder loop"} |-> Looped(HalfAdderGate)]

LoopKinds == DOMAIN LoopGates

Circuit(k) ==
    CASE k \in LoopKinds -> LoopGates[k]
      [] k = "And" -> AndGate
      [] k = "Or" -> OrGate
      [] k = "Not" -> NotGate
      [] k = "Xor" -> XorGate
      [] k = "Fan" -> FanGate
      [] k = "Nand" -> NandGate
      [] k = "Nor" -> NorGate
      [] k = "Xnor" -> XnorGate
      [] k = "TwoToOneMux" -> TwoToOneMuxGate
      [] k = "ThreeWayAnd" -> ThreeWayAndGate
      [] k = "FourWayAnd" -> FourWayAndGate
      [] k = "FourWayOr" -> FourWayOrGate
      [] k = "FourToOneMux" -> FourToOneMuxGate
      [] k = "HalfAdder" -> HalfAdderGate
      [] k = "OneBitAdder" -> OneBitAdderGate
      [] k = "FourBitAdder" -> FourBitAdderGate
      [] k = "SRLatch" -> SRLatchGate
      [] k = "GatedSRLatch" -> GatedSRLatchGate
      [] k = "DLatch" -> DLatchGate

\* Pin.__init__: _value = False; SRLatch.__init__ then raises its notQ pin.
InitVal(c) == [p \in 1..c.n |-> p \in c.hi]

(***************************************************************************)
(* Propagation.  A run of setValue is a function of the pin values, of    *)
(* the order in which each connection set is iterated and of the numbers  *)
(* random.randint returns: each operator below maps a run state           *)
(*   [val, raced, err, open, laps, written]                                *)
(* to the set of the run states the call can return with.  err is the     *)
(* exception in flight: once it is set, the rest of the call is skipped.  *)
(* open is the set of the output pins whose setValue is in progress.  A   *)
(* setValue on a pin that is open is where the recursion of the code      *)
(* starts over.  The code has nothing that ends it: the interpreter does, *)
(* with a RuntimeError, at a depth the model does not know.  So the       *)
(* RuntimeError can come at any such setValue, and comes at the latest    *)
(* after MaxLaps of them (laps counts them).  written is the set of the   *)
(* <<output pin, value>> the call has written so far.                     *)
(***************************************************************************)

\* A loop over self.connections that stops after the first pin.
IterationStops(S) == IF S = {} THEN {<<>>} ELSE {<<x>> : x \in S}

\* The orders in which "for pin in self.connections" can visit a set.
IterationOrders(S) ==
    {f \in [1..Cardinality(S) -> S] : \A i, j \in DOMAIN f : f[i] = f[j] => i = j}

\* bool(random.randint(1, 10) % 2)
RaceChoices == {Bool(r % 2) : r \in RandInts}

\* all(map(lambda pin: pin.value, self._inputs))
AllInputs(st, g) == \A i \in DOMAIN g.ins : st.val[g.ins[i]]

\* any(map(lambda pin: pin.value, self._inputs))
AnyInput(st, g) == \E i \in DOMAIN g.ins : st.val[g.ins[i]]

RECURSIVE InputPinSetValue(_, _, _, _)
RECURSIVE OutputPinSetValue(_, _, _, _)
RECURSIVE ForConnections(_, _, _, _)
RECURSIVE refreshOutputs(_, _, _)
RECURSIVE FanLoop(_, _, _, _)

\* InputPin.setValue, with value already a bool
InputPinSetValue(c, st, p, v) ==
    IF st.err # NoError THEN {st}
    ELSE UNION {refreshOutputs(c, s, c.gate[p]) : s \in {[st EXCEPT !.val[p] = v]}}

\* The loop over self.connections left after its first pin.
ForConnectionsFirstOnly(c, st, o, ord) ==
    IF ord = <<>> \/ st.err # NoError THEN {st}
    ELSE InputPinSetValue(c, st, Head(ord), st.val[o])

\* for pin in self.connections: pin.setValue(self._value), in the order ord
ForConnections(c, st, o, ord) ==
    IF ord = <<>> \/ st.err # NoError THEN {st}
    ELSE UNION {ForConnections(c, s, o, rest) :
                    s \in InputPinSetValue(c, st, Head(ord), st.val[o]),
                    rest \in {Tail(ord)}}

\* OutputPin.setValue, with value already a bool
OutputPinSetValue(c, st, o, v) ==
    IF st.err # NoError THEN {st}
    ELSE (IF o \in st.open THEN {[st EXCEPT !.err = "RuntimeError"]} ELSE {})
         \cup
         (IF o \in st.open /\ st.laps >= MaxLaps THEN {}
          ELSE {[r EXCEPT !.open = st.open] :
                    r \in UNION {ForConnections(c, s, o, ord) :
                                     s \in {[st EXCEPT !.val[o] = v,
                                                        !.open = @ \cup {o},
                                                        !.laps = IF o \in st.open
                                                                 THEN @ + 1 ELSE @,
                                                        !.written = @ \cup {<<o, v>>}]},
                                     ord \in IterationOrders(c.connections[o])}})

\* Gate._setOut on the gate g
setOut(c, st, g, index, v) ==
    IF st.err # NoError THEN {st}
    ELSE IF 0 <= index /\ index < Len(g.outs)
         THEN OutputPinSetValue(c, st, g.outs[index + 1], v)
         ELSE {[st EXCEPT !.err = "GateException"]}

\* Fan.refreshOutputs from output i on
FanLoop(c, st, g, i) ==
    IF i >= Len(g.outs) \/ st.err # NoError THEN {st}
    ELSE UNION {FanLoop(c, s, g, j) :
                    s \in OutputPinSetValue(c, st, g.outs[i + 1], st.val[g.ins[1]]),
                    j \in {i + 1}}

\* SRLatch.refreshOutputs without memory: with R and S both False it resets.
SRLatchRefreshNoHold(c, st, g) ==
    LET R == st.val[g.ins[1]]
        S == st.val[g.ins[2]]
    IN IF R /\ S
       THEN UNION {UNION {setOut(c, s, g, 1, ~x) :
                              s \in setOut(c, r, g, 0, x)} :
                       x \in RaceChoices, r \in {[st EXCEPT !.raced = TRUE]}}
       ELSE IF ~R /\ S
       THEN UNION {setOut(c, s, g, 1, FALSE) : s \in setOut(c, st, g, 0, TRUE)}
       ELSE UNION {setOut(c, s, g, 1, TRUE) : s \in setOut(c, st, g, 0, FALSE)}

\* SRLatch.refreshOutputs whose race branch writes x to both outputs.
SRLatchRefreshRaceSame(c, st, g) ==
    LET R == st.val[g.ins[1]]
        S == st.val[g.ins[2]]
    IN IF R /\ S
       THEN UNION {UNION {setOut(c, s, g, 1, x) :
                              s \in setOut(c, r, g, 0, x)} :
                       x \in RaceChoices, r \in {[st EXCEPT !.raced = TRUE]}}
       ELSE IF R /\ ~S
       THEN UNION {setOut(c, s, g, 1, TRUE) : s \in setOut(c, st, g, 0, FALSE)}
       ELSE IF ~R /\ S
       THEN UNION {setOut(c, s, g, 1, FALSE) : s \in setOut(c, st, g, 0, TRUE)}
       ELSE {st}

\* SRLatch.refreshOutputs
SRLatchRefresh(c, st, g) ==
    LET R == st.val[g.ins[1]]
        S == st.val[g.ins[2]]
    IN IF R /\ S
       THEN UNION {UNION {setOut(c, s, g, 1, ~x) :
                              s \in setOut(c, r, g, 0, x)} :
                       x \in RaceChoices, r \in {[st EXCEPT !.raced = TRUE]}}
       ELSE IF R /\ ~S
       THEN UNION {setOut(c, s, g, 1, TRUE) : s \in setOut(c, st, g, 0, FALSE)}
       ELSE IF ~R /\ S
       THEN UNION {setOut(c, s, g, 1, FALSE) : s \in setOut(c, st, g, 0, TRUE)}
       ELSE {st}

\* refreshOutputs of the gate g, by its class
refreshOutputs(c, st, g) ==
    IF st.err # NoError THEN {st}
    ELSE CASE g.k = "And" -> setOut(c, st, g, 0, AllInputs(st, g))
           [] g.k = "Or"  -> setOut(c, st, g, 0, AnyInput(st, g))
           [] g.k = "Not" -> setOut(c, st, g, 0, ~st.val[g.ins[1]])
           [] g.k = "Xor" ->
                setOut(c, st, g, 0, BoolXor(st.val[g.ins[1]], st.val[g.ins[2]]))
           [] g.k = "Fan" -> FanLoop(c, st, g, 0)
           [] g.k = "SRLatch" -> SRLatchRefresh(c, st, g)
           [] OTHER -> {[st EXCEPT !.err = "NotImplementedError"]}

\* Gate.setIn(index, value): the run states the call can return with
setIn(c, v0, index, value) ==
    UNION {IF getInPin(c, index) = NoPin
           THEN {[st EXCEPT !.err = "GateException"]}
           ELSE InputPinSetValue(c, st, getInPin(c, index), Bool(value)) :
               st \in {[val |-> v0, raced |-> FALSE, err |-> NoError, open |-> {},
                       laps |-> 0, written |-> {}]}}

\* Gate.getIn with a valid index: return self.getInPin(index).value
getIn(c, v0, index) == v0[getInPin(c, index)]

\* self.getOutPin(index).value
OutValue(c, v0, index) == v0[getOutPin(c, index)]

\* The values a call returns: a bool, None, or nothing when it raises.
BoolValue(b) == [type |-> "bool", value |-> b]

NoneValue == [type |-> "NoneType"]

NoValue == [type |-> "raised"]

\* Gate.getOut with a valid index: the body evaluates
\* self.getOutPin(index).value and has no return statement.
getOut(c, v0, index) ==
    The({NoneValue : value \in {OutValue(c, v0, index)}})

(***************************************************************************)
(* The program: one gate is constructed, then its inputs are set.          *)
(***************************************************************************)

Indices(c) == (0 - IndexSlack)..(Len(c.ins) - 1 + IndexSlack)

OutIndices(c) == (0 - IndexSlack)..(Len(c.outs) - 1 + IndexSlack)

NoChain == [a |-> <<>>, b |-> <<>>, built |-> FALSE, gate |-> <<>>]

Values == 0..MaxValue

InitOf(k) ==
    /\ kind = k
    /\ val = InitVal(Circuit(k))
    /\ raced = FALSE
    /\ err = NoError
    /\ ret = NoValue
    /\ touched = {}
    /\ gated = {}
    /\ plain = {}
    /\ calls = <<>>
    /\ chain = NoChain

Init == \E k \in Kinds : InitOf(k)

\* gate.setIn(index, value) returns or raises.
Call(index, value) ==
    /\ \E s \in setIn(Circuit(kind), val, index, value) :
          /\ val' = s.val
          /\ raced' = s.raced
          /\ err' = s.err
          /\ ret' = IF s.err = NoError THEN NoneValue ELSE NoValue
    /\ UNCHANGED <<kind, aside>>

\* The call, with the history of the indices whose pins have been set.
SetIn(index, value) ==
    /\ Call(index, value)
    /\ touched' = IF getInPin(Circuit(kind), index) = NoPin
                  THEN touched ELSE touched \cup {index}

\* gate.getIn(index) returns or raises.
GetIn(index) ==
    /\ IF getInPin(Circuit(kind), index) = NoPin
       THEN err' = "GateException" /\ ret' = NoValue
       ELSE err' = NoError /\ ret' = BoolValue(getIn(Circuit(kind), val, index))
    /\ UNCHANGED <<kind, val, raced, touched, aside>>

\* gate.getOut(index) returns or raises.
GetOut(index) ==
    /\ IF getOutPin(Circuit(kind), index) = NoPin
       THEN err' = "GateException" /\ ret' = NoValue
       ELSE err' = NoError /\ ret' = getOut(Circuit(kind), val, index)
    /\ UNCHANGED <<kind, val, raced, touched, aside>>

Next ==
    \/ \E index \in Indices(Circuit(kind)), value \in Values : SetIn(index, value)
    \/ \E index \in Indices(Circuit(kind)) : GetIn(index)
    \/ \E index \in OutIndices(Circuit(kind)) : GetOut(index)

Spec == Init /\ [][Next]_vars

\* The four-bit adder alone, without the history of the indices set.
InitFourBitAdder == InitOf("FourBitAdder")

NextFourBitAdder ==
    \E index \in Indices(Circuit(kind)), value \in Values :
        Call(index, value) /\ UNCHANGED touched

SpecFourBitAdder == InitFourBitAdder /\ [][NextFourBitAdder]_vars

\* Every gate class, without the history of the indices set.
AllKinds == Kinds \cup {"FourBitAdder"}

InitAllGates == \E k \in AllKinds : InitOf(k)

NextAllGates ==
    \E index \in Indices(Circuit(kind)), value \in Values :
        Call(index, value) /\ UNCHANGED touched

SpecAllGates == InitAllGates /\ [][NextAllGates]_vars

\* The gates with a cycle in their connections
InitLoop == \E k \in LoopKinds : InitOf(k)

SpecLoop == InitLoop /\ [][Next]_vars

(***************************************************************************)
(* Two latches side by side: a GatedSRLatch and an SRLatch are             *)
(* constructed, In2 of the first is set to True, and then every setIn on   *)
(* In0 or In1 is made on both.  gated and plain are the pin values each    *)
(* can have by then, over the numbers random.randint returned.             *)
(***************************************************************************)

\* The pin values the gate c can have after setIn(index, value), when it
\* can have the pin values S before.
After(c, S, index, value) ==
    UNION {{s.val : s \in setIn(c, v, index, value)} : v \in S}

\* The (Q, notQ) the gate c shows over the pin values S
Shown(c, S) == {<<OutValue(c, v, 0), OutValue(c, v, 1)>> : v \in S}

\* In2 of the GatedSRLatch is True.
EnableHigh == \A v \in gated : getIn(GatedSRLatchGate, v, 2)

InitSideBySide ==
    /\ kind = "GatedSRLatch"
    /\ val = InitVal(GatedSRLatchGate)
    /\ raced = FALSE
    /\ err = NoError
    /\ ret = NoValue
    /\ touched = {}
    /\ gated = {InitVal(GatedSRLatchGate)}
    /\ plain = {InitVal(SRLatchGate)}
    /\ calls = <<>>
    /\ chain = NoChain

\* g.setIn(2, value) with a true value
Enable(value) ==
    /\ ~EnableHigh
    /\ Bool(value)
    /\ gated' = After(GatedSRLatchGate, gated, 2, value)
    /\ UNCHANGED <<kind, val, raced, err, ret, touched, plain, calls, chain>>

\* g.setIn(index, value); s.setIn(index, value)
SetBoth(index, value) ==
    /\ EnableHigh
    /\ Len(calls) < MaxCalls
    /\ gated' = After(GatedSRLatchGate, gated, index, value)
    /\ plain' = After(SRLatchGate, plain, index, value)
    /\ calls' = Append(calls, <<index, value>>)
    /\ UNCHANGED <<kind, val, raced, err, ret, touched, chain>>

NextSideBySide ==
    \/ \E value \in Values : Enable(value)
    \/ \E index \in {0, 1}, value \in Values : SetBoth(index, value)

SpecSideBySide == InitSideBySide /\ [][NextSideBySide]_vars

(***************************************************************************)
(* A chain: two gates a and b are constructed, then TwoGateChain(a, b).    *)
(***************************************************************************)

\* The constructor calls that make a and b
Operands ==
    {<<"And">>, <<"Or">>, <<"Not">>, <<"Xor">>, <<"Nand">>, <<"Nor">>, <<"Xnor">>,
     <<"SRLatch">>, <<"HalfAdder">>, <<"TwoToOneMux">>, <<"ThreeWayAnd">>,
     <<"GatedSRLatch">>}
        \cup {<<"Fan", n>> : n \in 1..MaxFan}

\* a = A(); b = B()
OperandA == Construct(chain.a, 0)

OperandB == Construct(chain.b, OperandA.n)

InitChain ==
    /\ kind = "TwoGateChain"
    /\ val = <<>>
    /\ raced = FALSE
    /\ err = NoError
    /\ ret = NoValue
    /\ touched = {}
    /\ gated = {}
    /\ plain = {}
    /\ calls = <<>>
    /\ \E a \in Operands, b \in Operands :
          chain = [a |-> a, b |-> b, built |-> FALSE, gate |-> <<>>]

\* TwoGateChain(a, b) returns or raises.
Chain ==
    /\ ~chain.built
    /\ \E g \in {TwoGateChain(OperandA, OperandB)} :
          /\ chain' = [chain EXCEPT !.built = TRUE, !.gate = g]
          /\ val' = InitVal(g)
          /\ err' = g.err
    /\ UNCHANGED <<kind, raced, ret, touched, gated, plain, calls>>

NextChain == Chain

SpecChain == InitChain /\ [][NextChain]_vars

(***************************************************************************)
(* What the claims read                                                    *)
(***************************************************************************)

\* gate.getIn(index) and the value of output pin index, in the current state
In(index) == getIn(Circuit(kind), val, index)

Out(index) == OutValue(Circuit(kind), val, index)

trueFalseToOnesAndZeroes(x) == IF x THEN 1 ELSE 0

Bit(x) == trueFalseToOnesAndZeroes(x)

\* The outputs of the gate g are what its rule gives for its inputs.
SettledGate(v, g) ==
    CASE g.k = "And" -> v[g.outs[1]] = (v[g.ins[1]] /\ v[g.ins[2]])
      [] g.k = "Or"  -> v[g.outs[1]] = (v[g.ins[1]] \/ v[g.ins[2]])
      [] g.k = "Not" -> v[g.outs[1]] = ~v[g.ins[1]]
      [] g.k = "Xor" -> v[g.outs[1]] = (v[g.ins[1]] # v[g.ins[2]])
      [] g.k = "Fan" -> \A i \in DOMAIN g.outs : v[g.outs[i]] = v[g.ins[1]]
      [] OTHER -> TRUE

Settled(c, v) == \A g \in c.prims : SettledGate(v, g)

(***************************************************************************)
(* The claims                                                              *)
(***************************************************************************)

\* C1: in a TwoToOneMux whose three inputs have all been set, output 0 is
\* input 0 when input 2 (the selector) is 0, and input 1 when input 2 is 1.
C1_MuxSelectorIsPin2 ==
    (kind = "TwoToOneMux" /\ touched = {0, 1, 2})
        => Out(0) = (IF In(2) THEN In(1) ELSE In(0))

CompositeKinds ==
    {"Nand", "Nor", "Xnor", "TwoToOneMux", "FourToOneMux", "ThreeWayAnd",
     "FourWayAnd", "FourWayOr", "HalfAdder", "OneBitAdder"}

\* C2: the first setIn on a valid index of a freshly constructed composite
\* leaves every gate inside it settled: its outputs are its rule applied to
\* its inputs.
C2_FirstSetInSettlesAll ==
    [][(kind \in CompositeKinds /\ touched = {} /\ touched' # {})
          => Settled(Circuit(kind), val')]_vars

LatchKinds == {"SRLatch", "GatedSRLatch", "DLatch"}

\* C4: after construction and after every setIn on an SRLatch, a
\* GatedSRLatch or a DLatch, outputs 0 and 1 have opposite values, whatever
\* the race branch drew.
C4_Complementary ==
    kind \in LatchKinds => Out(0) # Out(1)

\* A GatedSRLatch whose last setIn ran the race branch and ended with Q True.
C4_Witness ==
    kind = "GatedSRLatch" /\ raced /\ In(0) /\ In(1) /\ In(2) /\ Out(0)

\* C5: whenever a setIn on a DLatch has returned and the enable input is
\* True, Q is the data input and notQ its negation.
C5_DLatchTransparent ==
    (kind = "DLatch" /\ In(1)) => (Out(0) = In(0) /\ Out(1) = ~In(0))

\* An enabled DLatch whose data input has just gone from True to False.
C5_Witness ==
    kind = "DLatch" /\ In(1) /\ ~In(0) /\ raced /\ ~Out(0) /\ Out(1)

\* C6: on a DLatch whose enable input is False, a setIn on the data input
\* leaves both outputs unchanged; and a setIn that takes the enable input
\* from True to False leaves both outputs unchanged.
C6_DLatchHold ==
    [][kind = "DLatch" =>
          \A index \in Indices(Circuit(kind)), value \in Values :
              (/\ SetIn(index, value)
               /\ \/ index = 0 /\ ~In(1)
                  \/ index = 1 /\ In(1) /\ ~Bool(value))
                  => (Out(0)' = Out(0) /\ Out(1)' = Out(1))]_vars

\* A disabled DLatch that holds a Q different from its data input.
C6_Witness ==
    kind = "DLatch" /\ ~In(1) /\ touched = {0, 1} /\ Out(0) # In(0)

\* C7: no setIn on a DLatch ever runs the race branch of the inner SRLatch
\* (its reset and set pins are never both True when it refreshes).
C7_DLatchNeverRaces ==
    kind = "DLatch" => ~raced

\* C8: a setIn(i, v) in which v is the current value of input pin i leaves
\* the value of every pin unchanged.
C8_SetInIdempotent ==
    [][\A index \in Indices(Circuit(kind)), value \in Values :
          (/\ SetIn(index, value)
           /\ getInPin(Circuit(kind), index) # NoPin
           /\ Bool(value) = In(index))
              => val' = val]_vars

\* C9: in every state of a OneBitAdder, 2 * Out0 + Out1 = In0 + In1 + In2.
C9_OneBitAdderSum ==
    kind = "OneBitAdder" =>
        2 * Bit(Out(0)) + Bit(Out(1)) = Bit(In(0)) + Bit(In(1)) + Bit(In(2))

\* A OneBitAdder adding 1 + 1 + 1.
C9_Witness ==
    kind = "OneBitAdder" /\ In(0) /\ In(1) /\ In(2) /\ Out(0) /\ Out(1)

\* The number whose bit i (least significant first) is bits[i + 1].
RECURSIVE Number(_)
Number(bits) ==
    IF bits = <<>> THEN 0 ELSE Bit(Head(bits)) + 2 * Number(Tail(bits))

\* C10: in every state of a FourBitAdder, the number Out4 Out3 Out2 Out1
\* Out0 is In6 In4 In2 In0 plus In7 In5 In3 In1 plus In8.
C10_FourBitAdderSum ==
    kind = "FourBitAdder" =>
        Number(<<Out(0), Out(1), Out(2), Out(3), Out(4)>>)
            = Number(<<In(0), In(2), In(4), In(6)>>)
              + Number(<<In(1), In(3), In(5), In(7)>>) + Bit(In(8))

\* A FourBitAdder adding 15 + 15 + 1 = 31.
C10_Witness ==
    /\ kind = "FourBitAdder"
    /\ \A i \in 0..8 : In(i)
    /\ \A i \in 0..4 : Out(i)

(***************************************************************************)
(* C11 .. C20                                                              *)
(***************************************************************************)

PrimitiveKinds == {"And", "Or", "Not", "Xor", "Fan"}

\* C11: once a setIn call on an And, Or, Xor, Not or Fan gate has returned,
\* the outputs are the gate's rule applied to the current inputs (And: in0
\* and in1; Or: in0 or in1; Xor: in0 xor in1; Not: not in0; Fan: every
\* output equals in0), whatever the inputs and the order they were set in.
C11_PrimitiveTruthTables ==
    (kind \in PrimitiveKinds /\ touched # {}) =>
        CASE kind = "And" -> Out(0) = (In(0) /\ In(1))
          [] kind = "Or"  -> Out(0) = (In(0) \/ In(1))
          [] kind = "Xor" -> Out(0) = (In(0) # In(1))
          [] kind = "Not" -> Out(0) = ~In(0)
          [] kind = "Fan" ->
                \A i \in 0..(nOutputs(Circuit(kind)) - 1) : Out(i) = In(0)

C11_Witness ==
    kind = "Xor" /\ touched = {0, 1} /\ In(0) /\ In(1) /\ ~Out(0)

\* C12: after one or more setIn calls on a Nand, Nor or Xnor have set a
\* pin, output 0 is the negation of And / Or / Xor of the two current
\* inputs.
C12_ChainNegates ==
    (kind \in ChainClasses /\ touched # {}) =>
        CASE kind = "Nand" -> Out(0) = ~(In(0) /\ In(1))
          [] kind = "Nor"  -> Out(0) = ~(In(0) \/ In(1))
          [] kind = "Xnor" -> Out(0) = ~(In(0) # In(1))

C12_Witness ==
    kind = "Xnor" /\ touched = {0, 1} /\ In(0) /\ In(1) /\ Out(0)

\* C13: once both selectors In0 and In1 of a FourToOneMux have been set,
\* the output is In2 for (In0, In1) = (0, 0), In3 for (0, 1), In4 for
\* (1, 0) and In5 for (1, 1), whatever the other data inputs are.
C13_FourToOneMuxSelects ==
    (kind = "FourToOneMux" /\ {0, 1} \subseteq touched) =>
        Out(0) = In(2 + 2 * Bit(In(0)) + Bit(In(1)))

C13_Witness ==
    /\ kind = "FourToOneMux" /\ touched = 0..5
    /\ In(0) /\ ~In(1)
    /\ In(2) /\ In(3) /\ ~In(4) /\ In(5)
    /\ ~Out(0)

\* The SRLatch inside a gate
InnerLatch(c) == The({g \in c.prims : g.k = "SRLatch"})

\* The two input pins of the inner SRLatch are both False.
LatchInputsLow(c, v) == \A i \in DOMAIN InnerLatch(c).ins : ~v[InnerLatch(c).ins[i]]

\* C14: in a GatedSRLatch whose enable In2 is False, the two input pins of
\* the inner SRLatch are both False, and a setIn on In0 (reset) or In1
\* (set) with any value leaves Q and notQ as they were and the inner pins
\* False.
C14_GatedDisable ==
    /\ (kind = "GatedSRLatch" /\ ~In(2)) => LatchInputsLow(Circuit(kind), val)
    /\ [][kind = "GatedSRLatch" =>
            \A index \in {0, 1}, value \in Values :
                (SetIn(index, value) /\ ~In(2)) =>
                    /\ Out(0)' = Out(0)
                    /\ Out(1)' = Out(1)
                    /\ LatchInputsLow(Circuit(kind), val')]_vars

C14_Witness ==
    /\ kind = "GatedSRLatch" /\ touched = {0, 1, 2}
    /\ ~In(2) /\ In(0) /\ In(1)
    /\ Out(0) /\ ~Out(1)

\* C16: getOut(index) with 0 <= index < nOutputs returns the current
\* boolean value of output pin index and changes the value of no pin.
C16_GetOutReturnsValue ==
    [][\A index \in OutIndices(Circuit(kind)) :
          (GetOut(index) /\ 0 <= index /\ index < nOutputs(Circuit(kind))) =>
              (ret' = BoolValue(Out(index)) /\ val' = val)]_vars

\* C17: setIn and getIn with an index outside 0 .. nInputs - 1, and getOut
\* with an index outside 0 .. nOutputs - 1 (-1, the count and the count + 1
\* among them), raise GateException, return nothing and leave every pin as
\* it was.
C17_OutOfRange ==
    [][/\ \A index \in Indices(Circuit(kind)) :
            (index < 0 \/ index >= nInputs(Circuit(kind))) =>
                /\ \A value \in Values :
                      SetIn(index, value) =>
                          (err' = "GateException" /\ ret' = NoValue /\ val' = val)
                /\ GetIn(index) =>
                      (err' = "GateException" /\ ret' = NoValue /\ val' = val)
       /\ \A index \in OutIndices(Circuit(kind)) :
            (index < 0 \/ index >= nOutputs(Circuit(kind))) =>
                (GetOut(index) =>
                    (err' = "GateException" /\ ret' = NoValue /\ val' = val))]_vars

C17_Witness ==
    kind = "Not" /\ touched = {0} /\ Out(0) /\ err = "GateException"

\* C15: with In2 of a fresh GatedSRLatch set to True and held, after every
\* sequence of setIn calls on In0 and In1 the (Q, notQ) pairs the
\* GatedSRLatch can show are those a fresh SRLatch can show after the same
\* calls.
C15_GatedRefinesPlain ==
    EnableHigh => Shown(GatedSRLatchGate, gated) = Shown(SRLatchGate, plain)

C15_Witness ==
    /\ EnableHigh
    /\ Len(calls) = 3
    /\ Shown(GatedSRLatchGate, gated) = {<<TRUE, FALSE>>, <<FALSE, TRUE>>}
    /\ Shown(SRLatchGate, plain) = {<<TRUE, FALSE>>, <<FALSE, TRUE>>}

\* C18: TwoGateChain(a, b) with a's output count different from b's input
\* count raises at construction, with no connection added to an output pin
\* of a and no pin of a or b set: the connection sets and the pin values of
\* a and b are what they were.
C18_ArityCheckFirst ==
    (chain.built /\ nOutputs(OperandA) # nInputs(OperandB)) =>
        /\ err = "GateException"
        /\ \A o \in DOMAIN OperandA.connections :
              chain.gate.connections[o] = OperandA.connections[o]
        /\ \A o \in DOMAIN OperandB.connections :
              chain.gate.connections[o] = OperandB.connections[o]
        /\ \A p \in 1..OperandA.n : val[p] = InitVal(OperandA)[p]
        /\ \A p \in (OperandA.n + 1)..OperandB.n : val[p] = InitVal(OperandB)[p]

C18_Witness ==
    /\ chain.built
    /\ chain.a = <<"Fan", 3>>
    /\ chain.b = <<"And">>
    /\ err = "GateException"

\* The indices setIn accepts on the gate c
ValidIndices(c) == 0..(nInputs(c) - 1)

FanOutKinds == {"OneBitAdder", "FourBitAdder", "FourToOneMux"}

\* C19: on a OneBitAdder, a FourBitAdder and a FourToOneMux, in every state
\* a sequence of setIn calls leads to, the values of all pins after a
\* further setIn call are the same for every order in which each output
\* pin iterates over its connection set.
C19_OrderIndependent ==
    kind \in FanOutKinds =>
        \A index \in ValidIndices(Circuit(kind)), value \in Values :
            Cardinality({s.val : s \in setIn(Circuit(kind), val, index, value)}) = 1

\* Some output pin of the gate c has more than one connection.
HasFanOut(c) == \E o \in DOMAIN c.connections : Cardinality(c.connections[o]) > 1

C19_Witness ==
    /\ kind = "OneBitAdder"
    /\ HasFanOut(Circuit(kind))
    /\ In(0) /\ In(1) /\ ~In(2)
    /\ Out(0) /\ ~Out(1)

\* C20: on every gate class, in every state a sequence of setIn calls leads
\* to, a setIn call with a valid index returns without an exception, and
\* its propagation never comes back to an output pin whose setValue is in
\* progress (which is what bounds its pin writes and recomputations).
C20_PropagationReturns ==
    \A index \in ValidIndices(Circuit(kind)), value \in Values :
        \A s \in setIn(Circuit(kind), val, index, value) :
            s.err = NoError

C20_Witness ==
    /\ kind = "GatedSRLatch" /\ err = NoError
    /\ raced /\ In(0) /\ In(1) /\ In(2)
    /\ ~Out(0) /\ Out(1)

(***************************************************************************)
(* C21 .. C24                                                              *)
(***************************************************************************)

\* C21: in an acyclic composite no setIn call writes to an output pin a
\* value other than the value that pin has when the call returns (a gate
\* fed by several branches of one propagation is refreshed only once all
\* of them hold their final values).
C21_NoIntermediateValues ==
    kind \in CompositeKinds =>
        \A index \in ValidIndices(Circuit(kind)), value \in Values :
            \A s \in setIn(Circuit(kind), val, index, value) :
                \A w \in s.written : s.val[w[1]] = w[2]

\* C22: on a gate whose connections form a cycle (a Not whose output pin
\* is connected to its own input pin, for one), a setIn call that starts a
\* propagation around the cycle is stopped by a guard and fails with an
\* error of its own, not with the RuntimeError of a recursion without end.
C22_CycleGuard ==
    kind \in LoopKinds =>
        \A index \in ValidIndices(Circuit(kind)), value \in Values :
            \A s \in setIn(Circuit(kind), val, index, value) :
                s.err \notin {NoError, "RuntimeError"}

ProvidedComposites == CompositeKinds \cup {"FourBitAdder", "GatedSRLatch", "DLatch"}

\* C23: in every provided composite, after construction and after every
\* setIn call, every input pin in the connection set of an output pin has
\* the value of that output pin.
C23_ConnectionsAgree ==
    kind \in ProvidedComposites =>
        \A o \in DOMAIN Circuit(kind).connections :
            \A p \in Circuit(kind).connections[o] : val[p] = val[o]

C23_Witness ==
    /\ kind = "FourToOneMux"
    /\ In(0) /\ In(1) /\ In(5)
    /\ Out(0)

\* The pin p of the gate c belongs to a gate whose class overrides
\* refreshOutputs.
OwnedByOverride(c, p) ==
    \E g \in c.prims : g.k # "Gate" /\ p \in Range(g.ins) \cup Range(g.outs)

\* C24: every input and output slot of every provided composite holds a pin
\* of a gate that overrides refreshOutputs, and no setIn call on one of them
\* ends in NotImplementedError.
C24_NoAbstractRefresh ==
    kind \in ProvidedComposites =>
        /\ \A i \in DOMAIN Circuit(kind).ins :
              /\ OwnedByOverride(Circuit(kind), Circuit(kind).ins[i])
              /\ Circuit(kind).gate[Circuit(kind).ins[i]].k # "Gate"
        /\ \A i \in DOMAIN Circuit(kind).outs :
              OwnedByOverride(Circuit(kind), Circuit(kind).outs[i])
        /\ err # "NotImplementedError"

C24_Witness ==
    kind = "FourWayOr" /\ err = NoError /\ In(3) /\ ~In(0) /\ Out(0)

====
